---------------------------- MODULE Spec2Model ----------------------------
(* Message-board backend: express route handlers over mongoose models,     *)
(* guarded by a JWT session validator.  Every handler is an async function; *)
(* each awaited database call is one atomic step, and the synchronous code  *)
(* that follows it (up to the next await or the response) belongs to the    *)
(* same step.  Requests in flight are kept in a bag, so that any number of  *)
(* handlers interleave at their awaits.                                     *)
EXTENDS Integers, Sequences, FiniteSets, Bags, TLC

VARIABLES
  users,     \* User collection:    id -> [username, password, role, gender]
  messages,  \* Message collection: id -> [userId, name, message, textColor, images, likes, replies, v]
  replies,   \* Reply collection:   id -> [messageId, userId, reply]
  appeals,   \* Appeal collection:  id -> [userId, appealType, report, content]
  ids,       \* number of ObjectIds handed out per collection
  tokens,    \* session tokens issued by login and still held by clients
  now,       \* the clock jwt reads, in units of the token lifetime
  capacity,  \* how many requests the clients keep in flight at once
  faulty,    \* whether database calls may fail in this run
  secretKey, \* SECRET_KEY of this deployment: [env, file], where it is set (Undefined: not set)
  inflight,  \* bag of requests whose handler is suspended at an await
  last       \* the request that completed most recently, with what it sent,
             \* and whether the server process exited with it

db == <<users, messages, replies, appeals>>
vars == <<users, messages, replies, appeals, ids, tokens, now, capacity, faulty, secretKey, inflight, last>>

----------------------------------------------------------------------------
(* Bounds of the model *)
MaxMessages == 1
MaxReplies == 1
MaxAppeals == 1
MaxUsers == 4
MaxLikes == 2
MaxTime == 2
MaxInFlight == 2
MaxInFlightOwnership == 1

(* jwt.sign(..., { expiresIn: '1h' }): one clock unit is one hour *)
ExpiresIn == 1

----------------------------------------------------------------------------
(* Values *)
Undefined == "<undefined>"
Falsy(x) == x = Undefined \/ x = ""

\* A request parameter that is a well-formed ObjectId naming no document.
GhostId == 0
\* A request parameter that is not a well-formed ObjectId.
BadId == -1
ValidObjectId(id) == id # BadId

Anonymous == [userId |-> 0, role |-> "none"]
NoLoc == [none |-> TRUE]
NoParams == [none |-> TRUE]

Range(s) == {s[i] : i \in DOMAIN s}
EmptyDelta == [f \in {} |-> Undefined]
Without(docs, id) == [d \in DOMAIN docs \ {id} |-> docs[d]]

----------------------------------------------------------------------------
(* Credential service: bcrypt and jsonwebtoken *)
Hash(pw) == <<"bcrypt", pw>>
Compare(pw, hashed) == hashed = Hash(pw)

\* the key of a configured deployment, and the key the validator falls back to
ServerKey == "server"
DefaultKey == "your_secret_key"

\* Where a deployment sets SECRET_KEY: in the environment of the process, in
\* the .env file that dotenv.config() loads, or nowhere.
InEnvironment == [env |-> ServerKey, file |-> Undefined]
InDotenvFile == [env |-> Undefined, file |-> ServerKey]
NotSet == [env |-> Undefined, file |-> Undefined]

\* server.js reads process.env.SECRET_KEY after dotenv.config(), which adds the
\* variables of .env that the environment does not set
SignKey == IF secretKey.env # Undefined THEN secretKey.env ELSE secretKey.file
\* jwt.sign(payload, SECRET_KEY, ...) throws when SECRET_KEY is undefined
SignThrows == SignKey = Undefined
Sign(user, id) ==
  [userId |-> id, role |-> user.role, exp |-> now + ExpiresIn, sig |-> SignKey]

\* the validator's key, process.env.SECRET_KEY || 'your_secret_key': the module
\* is required, and the key read, before dotenv.config() runs
VerifyKey == IF secretKey.env # Undefined THEN secretKey.env ELSE DefaultKey
Verify(token) == token.sig = VerifyKey /\ now < token.exp

\* Tokens a client made up, with admin claims: one signed with a key of the
\* client's own, one signed with the validator's fallback key.
ForgedToken == [userId |-> 1, role |-> "admin", exp |-> MaxTime + ExpiresIn + 1, sig |-> "forged"]
DefaultKeyToken == [userId |-> 1, role |-> "admin", exp |-> MaxTime + ExpiresIn + 1, sig |-> DefaultKey]
MadeUpTokens == {ForgedToken, DefaultKeyToken}

NoHeader == [form |-> "absent"]
SchemeOnly == [form |-> "scheme"]
Bearer(token) == [form |-> "bearer", token |-> token]
Headers == {NoHeader, SchemeOnly} \cup {Bearer(t) : t \in tokens \cup MadeUpTokens}

\* authorizationHeader.split(' ')[1]
TokenOf(header) == IF header.form = "bearer" THEN header.token ELSE Undefined

\* status 0: next() was called with req.user set
authMiddlewareDecodeOnly(header) ==
  IF header.form = "absent" THEN [status |-> 401, user |-> Anonymous]
  ELSE IF header.form # "bearer" THEN [status |-> 401, user |-> Anonymous]
  ELSE [status |-> 0, user |-> [userId |-> TokenOf(header).userId, role |-> TokenOf(header).role]]

authMiddleware(header) ==
  IF header.form = "absent" THEN [status |-> 401, user |-> Anonymous]
  ELSE IF header.form # "bearer" THEN [status |-> 401, user |-> Anonymous]
  ELSE IF Verify(TokenOf(header))
       THEN [status |-> 0,
             user |-> [userId |-> TokenOf(header).userId, role |-> TokenOf(header).role]]
       ELSE [status |-> 403, user |-> Anonymous]

----------------------------------------------------------------------------
(* Requests *)
Req(kind, user, p, pc, loc) ==
  [kind |-> kind, user |-> user, p |-> p, pc |-> pc, loc |-> loc]

\* the process is up and the clients have a request to spare
Room == ~last.exited /\ BagCardinality(inflight) < capacity
Suspend(r) == inflight' = inflight (+) SetToBag({r})
Resume(r, r2) == inflight' = (inflight (-) SetToBag({r})) (+) SetToBag({r2})
Finish(r) == inflight' = inflight (-) SetToBag({r})
At(kind, pc) == {r \in BagToSet(inflight) : r.kind = kind /\ r.pc = pc}

NotApplicable == [form |-> "n/a"]

\* the stored owner of the entity a request addresses, 0 when there is none
OwnerIn(docs, id) == IF id \in DOMAIN docs THEN docs[id].userId ELSE 0
Target(r) ==
  IF r.kind \in {"edit", "deleteMessage"} THEN OwnerIn(messages, r.p.id)
  ELSE IF r.kind = "deleteReply" THEN OwnerIn(replies, r.p.replyId)
  ELSE IF r.kind = "deleteAppeal" THEN OwnerIn(appeals, r.p.id)
  ELSE 0

\* what a completed request leaves behind: the res.send calls it made, in
\* order, and who owned the entity it addressed when it completed
Sent(r, sends, err) ==
  last' = [kind |-> r.kind, user |-> r.user, owner |-> Target(r), sends |-> sends,
           err |-> err, entered |-> TRUE, hdr |-> NotApplicable,
           exited |-> FALSE, dropped |-> EmptyBag]

\* rejected by the session validator: the handler is never entered
Rejected(kind, h, status) ==
  /\ last' = [kind |-> kind, user |-> Anonymous, owner |-> 0, sends |-> <<status>>,
              err |-> "auth", entered |-> FALSE, hdr |-> h,
              exited |-> FALSE, dropped |-> EmptyBag]
  /\ UNCHANGED <<users, messages, replies, appeals, ids, tokens, now, inflight>>

\* app.use((err, req, res, next) => res.status(500).send(...))
ErrorMiddleware == <<500>>
\* catch (error) { next(error); ...; res.status(s).send(...) }
CatchNext(s) == ErrorMiddleware \o <<s>>
\* ... where the second send throws (the headers are sent) inside the async
\* handler: the rejection is unhandled and the process exits; the requests in
\* flight are dropped unanswered and no request is served afterwards
Crash(r, s, err) ==
  /\ inflight' = EmptyBag
  /\ last' = [kind |-> r.kind, user |-> r.user, owner |-> Target(r), sends |-> CatchNext(s),
              err |-> err, entered |-> TRUE, hdr |-> NotApplicable,
              exited |-> TRUE, dropped |-> inflight (-) SetToBag({r})]
\* catch (error) { ...; res.status(s).send(...) }
Catch(s) == <<s>>

\* The database as the server finds it: three users (one of them made admin
\* directly in the database, which no route can do), and the sessions of
\* `holders`, who logged in at time 0 (on a deployment that can sign).
InitWith(holders, cap, reliability, keys) ==
  /\ users = (1 :> [username |-> "alice", password |-> Hash("pw1"), role |-> "user", gender |-> "female"])
          @@ (2 :> [username |-> "bob", password |-> Hash("pw1"), role |-> "user", gender |-> "male"])
          @@ (3 :> [username |-> "root", password |-> Hash("pw2"), role |-> "admin", gender |-> "male"])
  /\ messages = <<>>
  /\ replies = <<>>
  /\ appeals = <<>>
  /\ ids = [user |-> 3, msg |-> 0, reply |-> 0, appeal |-> 0]
  /\ secretKey \in keys
  /\ tokens = IF SignThrows THEN {}
              ELSE {[userId |-> u, role |-> users[u].role, exp |-> ExpiresIn, sig |-> SignKey] : u \in holders}
  /\ now = 0
  /\ capacity = cap
  /\ faulty \in reliability
  /\ inflight = EmptyBag
  /\ last = [kind |-> "none", user |-> Anonymous, owner |-> 0, sends |-> <<>>,
             err |-> "none", entered |-> FALSE, hdr |-> NotApplicable,
             exited |-> FALSE, dropped |-> EmptyBag]

Init == InitWith({1, 2, 3}, MaxInFlight, BOOLEAN, {InEnvironment, InDotenvFile, NotSet})

\* how an awaited database call may end: resolved (TRUE) or rejected (FALSE)
Outcomes == IF faulty THEN BOOLEAN ELSE {TRUE}

\* a protected route: authMiddleware answers and the handler never runs
Refused(h) == authMiddleware(h).status # 0
Refusal(kind, h) == Rejected(kind, h, authMiddleware(h).status)

----------------------------------------------------------------------------
(* POST /api/messages *)
NameInputs == {"n"}
TextInputs == {Undefined, "hi"}
ColorInputs == {Undefined, "#f00"}
\* req.body.images: absent or empty (mongoose stores [] for both), or a list of names
NoImages == <<>>
ImageInputs == {NoImages, <<"a.png">>}
\* the request body: JSON, or multipart with a file in the 'images' field
\* that the fileFilter accepts (jpeg) or rejects (gif)
BodyForms == {"json", "jpeg", "gif"}
Multipart(form) == form # "json"

\* fileFilter: the mimetype and the extension must both match /jpeg|jpg|png/
FileFilter(form) == form = "jpeg"

\* authMiddleware, then upload.array('images', 10): a body that is not
\* multipart goes straight on to the handler, which runs up to Message.create;
\* a multipart body is read from the request stream first.  In a multipart
\* body the 'images' field carries the files, so req.body.images is absent.
StartCreateMessage(h, form, name, message, textColor, images) ==
  /\ Room
  /\ ids.msg < MaxMessages
  /\ Multipart(form) => images = NoImages
  /\ (IF Refused(h) THEN Refusal("createMessage", h)
      ELSE LET user == authMiddleware(h).user IN
         /\ Suspend(Req("createMessage", user,
                        [form |-> form, name |-> name, message |-> message,
                         textColor |-> textColor, images |-> images],
                        IF Multipart(form) THEN "upload" ELSE "create", NoLoc))
         /\ UNCHANGED <<users, messages, replies, appeals, ids, tokens, now, last>>)
  /\ UNCHANGED <<capacity, faulty, secretKey>>

\* multer has read the body: a file the fileFilter rejects ends the request in
\* the error middleware and the handler is never entered; otherwise the
\* handler runs up to Message.create
UploadImages(r) ==
  /\ r \in At("createMessage", "upload")
  /\ IF ~FileFilter(r.p.form)
     THEN /\ Finish(r)
          /\ last' = [kind |-> r.kind, user |-> r.user, owner |-> 0, sends |-> ErrorMiddleware,
                      err |-> "upload", entered |-> FALSE, hdr |-> NotApplicable,
                      exited |-> FALSE, dropped |-> EmptyBag]
     ELSE Resume(r, [r EXCEPT !.pc = "create"]) /\ UNCHANGED last
  /\ UNCHANGED <<users, messages, replies, appeals, ids, tokens, now, capacity, faulty, secretKey>>

\* messageSchema: name and message are required; textColor, images, likes
\* and replies default; __v starts at 0
MessageValid(doc) == ~Falsy(doc.name) /\ ~Falsy(doc.message)
Default(x, d) == IF x = Undefined THEN d ELSE x
NewMessage(r) ==
  [userId |-> r.user.userId, name |-> r.p.name, message |-> r.p.message,
   textColor |-> Default(r.p.textColor, "#000"), images |-> r.p.images,
   likes |-> 0, replies |-> <<>>, v |-> 0]

CreateMessage(r, ok) ==
  /\ r \in At("createMessage", "create")
  /\ IF ~ok THEN Crash(r, 500, "db") /\ UNCHANGED <<messages, ids>>
     ELSE IF ~MessageValid(r.p)
          THEN Crash(r, 500, "validation") /\ UNCHANGED <<messages, ids>>
          ELSE /\ messages' = messages @@ ((ids.msg + 1) :> NewMessage(r))
               /\ ids' = [ids EXCEPT !.msg = @ + 1]
               /\ Finish(r) /\ Sent(r, <<201>>, "none")
  /\ UNCHANGED <<users, replies, appeals, tokens, now, capacity, faulty, secretKey>>

----------------------------------------------------------------------------
(* document.save(): the modified paths are validated, then written ($set).  A
   save that replaces an array matches the loaded __v and increments it, and
   fails (VersionError) when the stored __v has moved on.  A save of a
   document that is gone fails (DocumentNotFoundError), also when nothing is
   modified: mongoose then checks that the document still exists. *)
SaveInvalid(delta) == \E f \in DOMAIN delta \cap {"name", "message"} : Falsy(delta[f])
SaveGone(id) == id \notin DOMAIN messages
Versioned(delta) == "replies" \in DOMAIN delta
VersionConflict(id, loc) == Versioned(loc.delta) /\ messages[id].v # loc.v
Saved(id, delta) ==
  [messages EXCEPT ![id] =
     [f \in DOMAIN messages[id] |->
        IF f \in DOMAIN delta THEN delta[f]
        ELSE IF f = "v" /\ Versioned(delta) THEN messages[id].v + 1
        ELSE messages[id][f]]]

SaveStep(r, id, ok, status) ==
  /\ Finish(r)
  /\ IF ~ok THEN Sent(r, Catch(500), "db") /\ UNCHANGED messages
     ELSE IF SaveInvalid(r.loc.delta)
          THEN Sent(r, Catch(500), "validation") /\ UNCHANGED messages
     ELSE IF SaveGone(id)
          THEN Sent(r, Catch(500), "gone") /\ UNCHANGED messages
     ELSE IF VersionConflict(id, r.loc)
          THEN Sent(r, Catch(500), "version") /\ UNCHANGED messages
          ELSE /\ messages' = Saved(id, r.loc.delta)
               /\ Sent(r, <<status>>, "none")
  /\ UNCHANGED <<users, replies, appeals, ids, tokens, now, capacity, faulty, secretKey>>

\* Model.findById(id) inside a handler's try block: the call resolves to a document
Found(docs, id, ok) == ok /\ ValidObjectId(id) /\ id \in DOMAIN docs
\* ... or it rejects (catch: 500) or resolves to null (the handler's 404)
NotFound(r, docs, id, ok, missing) ==
  IF ~ok THEN Finish(r) /\ Sent(r, Catch(500), "db")
  ELSE IF ~ValidObjectId(id) THEN Finish(r) /\ Sent(r, Catch(500), "cast")
  ELSE Finish(r) /\ Sent(r, <<missing>>, "none")

MessageParams == {GhostId} \cup (1..ids.msg)

----------------------------------------------------------------------------
(* POST /api/messages/:id/like *)
\* the highest count a like request admitted now could store
Max(S) == CHOOSE x \in S : \A y \in S : y <= x
Waiting(kind, pc) == BagCardinality([r \in At(kind, pc) |-> CopiesIn(r, inflight)])
LikeLoad ==
  Max({0} \cup {messages[m].likes : m \in DOMAIN messages}
          \cup {r.loc.delta.likes : r \in At("like", "save")})
  + Waiting("like", "findById")

StartLike(h, id) ==
  /\ Room
  /\ LikeLoad < MaxLikes
  /\ (IF Refused(h) THEN Refusal("like", h)
      ELSE LET user == authMiddleware(h).user IN
         /\ Suspend(Req("like", user, [id |-> id], "findById", NoLoc))
         /\ UNCHANGED <<users, messages, replies, appeals, ids, tokens, now, last>>)
  /\ UNCHANGED <<capacity, faulty, secretKey>>

LikeDelta(doc) == [likes |-> doc.likes + 1]

LikeFind(r, ok) ==
  /\ r \in At("like", "findById")
  /\ (IF ~Found(messages, r.p.id, ok) THEN NotFound(r, messages, r.p.id, ok, 404)
      ELSE LET doc == messages[r.p.id] IN
                    /\ Resume(r, [r EXCEPT !.pc = "save", !.loc = [delta |-> LikeDelta(doc), v |-> doc.v]])
                    /\ UNCHANGED last)
  /\ UNCHANGED <<users, messages, replies, appeals, ids, tokens, now, capacity, faulty, secretKey>>

LikeSave(r, ok) ==
  /\ r \in At("like", "save")
  /\ SaveStep(r, r.p.id, ok, 200)

(* POST /api/messages/:id/unlike *)
StartUnlike(h, id) ==
  /\ Room
  /\ (IF Refused(h) THEN Refusal("unlike", h)
      ELSE LET user == authMiddleware(h).user IN
         /\ Suspend(Req("unlike", user, [id |-> id], "findById", NoLoc))
         /\ UNCHANGED <<users, messages, replies, appeals, ids, tokens, now, last>>)
  /\ UNCHANGED <<capacity, faulty, secretKey>>

UnlikeDeltaUnguarded(doc) == [likes |-> doc.likes - 1]

UnlikeDelta(doc) == IF doc.likes > 0 THEN [likes |-> doc.likes - 1] ELSE EmptyDelta

UnlikeFind(r, ok) ==
  /\ r \in At("unlike", "findById")
  /\ (IF ~Found(messages, r.p.id, ok) THEN NotFound(r, messages, r.p.id, ok, 404)
      ELSE LET doc == messages[r.p.id] IN
                    /\ Resume(r, [r EXCEPT !.pc = "save", !.loc = [delta |-> UnlikeDelta(doc), v |-> doc.v]])
                    /\ UNCHANGED last)
  /\ UNCHANGED <<users, messages, replies, appeals, ids, tokens, now, capacity, faulty, secretKey>>

UnlikeSave(r, ok) ==
  /\ r \in At("unlike", "save")
  /\ SaveStep(r, r.p.id, ok, 200)

----------------------------------------------------------------------------
(* PUT /api/messages/:id *)
PatchNames == {Undefined, "n2"}
PatchTexts == {Undefined, "hi2"}
PatchColors == {Undefined}

StartEdit(h, id, name, message, textColor) ==
  /\ Room
  /\ (IF Refused(h) THEN Refusal("edit", h)
      ELSE LET user == authMiddleware(h).user IN
         /\ Suspend(Req("edit", user,
                        [id |-> id, name |-> name, message |-> message, textColor |-> textColor],
                        "findById", NoLoc))
         /\ UNCHANGED <<users, messages, replies, appeals, ids, tokens, now, last>>)
  /\ UNCHANGED <<capacity, faulty, secretKey>>

EditAllowedOrAdmin(user, doc) == doc.userId = user.userId \/ user.role = "admin"

EditAllowed(user, doc) == doc.userId = user.userId

\* the assignments of the fields the body carries; a path is modified when
\* the value assigned differs from the one loaded
EditDelta(p, doc) ==
  [f \in {g \in {"name", "message", "textColor"} : p[g] # Undefined /\ p[g] # doc[g]} |-> p[f]]

EditFind(r, ok) ==
  /\ r \in At("edit", "findById")
  /\ (IF ~Found(messages, r.p.id, ok) THEN NotFound(r, messages, r.p.id, ok, 404)
      ELSE LET doc == messages[r.p.id] IN
         IF ~EditAllowed(r.user, doc) THEN Finish(r) /\ Sent(r, <<403>>, "none")
         ELSE /\ Resume(r, [r EXCEPT !.pc = "save", !.loc = [delta |-> EditDelta(r.p, doc), v |-> doc.v]])
              /\ UNCHANGED last)
  /\ UNCHANGED <<users, messages, replies, appeals, ids, tokens, now, capacity, faulty, secretKey>>

EditSave(r, ok) ==
  /\ r \in At("edit", "save")
  /\ SaveStep(r, r.p.id, ok, 200)

----------------------------------------------------------------------------
(* DELETE /api/messages/:id *)
StartDeleteMessage(h, id) ==
  /\ Room
  /\ (IF Refused(h) THEN Refusal("deleteMessage", h)
      ELSE LET user == authMiddleware(h).user IN
         /\ Suspend(Req("deleteMessage", user, [id |-> id], "findById", NoLoc))
         /\ UNCHANGED <<users, messages, replies, appeals, ids, tokens, now, last>>)
  /\ UNCHANGED <<capacity, faulty, secretKey>>

DeleteAllowedAnyone(user, ownerId) == TRUE

\* message.userId.toString() !== req.user.userId && req.user.role !== 'admin'
DeleteAllowed(user, ownerId) == ownerId = user.userId \/ user.role = "admin"

DeleteMessageFind(r, ok) ==
  /\ r \in At("deleteMessage", "findById")
  /\ (IF ~Found(messages, r.p.id, ok) THEN NotFound(r, messages, r.p.id, ok, 404)
      ELSE LET doc == messages[r.p.id] IN
         IF ~DeleteAllowed(r.user, doc.userId) THEN Finish(r) /\ Sent(r, <<403>>, "none")
         ELSE Resume(r, [r EXCEPT !.pc = "findByIdAndDelete"]) /\ UNCHANGED last)
  /\ UNCHANGED <<users, messages, replies, appeals, ids, tokens, now, capacity, faulty, secretKey>>

\* findByIdAndDelete of a document that is gone resolves to null and the handler answers 200
DeleteMessageDelete(r, ok) ==
  /\ r \in At("deleteMessage", "findByIdAndDelete")
  /\ Finish(r)
  /\ IF ~ok THEN Sent(r, Catch(500), "db") /\ UNCHANGED messages
     ELSE messages' = Without(messages, r.p.id) /\ Sent(r, <<200>>, "none")
  /\ UNCHANGED <<users, replies, appeals, ids, tokens, now, capacity, faulty, secretKey>>

----------------------------------------------------------------------------
(* POST /api/messages/:id/replies *)
ReplyInputs == {Undefined, "re"}
ReplyParents == {GhostId, BadId} \cup (1..ids.msg)

StartCreateReply(h, id, reply) ==
  /\ Room
  /\ ids.reply < MaxReplies
  /\ (IF Refused(h) THEN Refusal("createReply", h)
      ELSE LET user == authMiddleware(h).user IN
         LET r == Req("createReply", user, [id |-> id, reply |-> reply], "create", NoLoc)
         IN IF Falsy(reply)
            THEN /\ Sent(r, <<400>>, "none")
                 /\ UNCHANGED <<users, messages, replies, appeals, ids, tokens, now, inflight>>
            ELSE /\ Suspend(r)
                 /\ UNCHANGED <<users, messages, replies, appeals, ids, tokens, now, last>>)
  /\ UNCHANGED <<capacity, faulty, secretKey>>

\* Reply.create: the schema casts messageId to an ObjectId; it does not look the message up
CreateReplyCreate(r, ok) ==
  /\ r \in At("createReply", "create")
  /\ IF ~ok THEN Crash(r, 500, "db") /\ UNCHANGED <<replies, ids>>
     ELSE IF ~ValidObjectId(r.p.id)
          THEN Crash(r, 500, "validation") /\ UNCHANGED <<replies, ids>>
          ELSE /\ replies' = replies @@
                    ((ids.reply + 1) :> [messageId |-> r.p.id, userId |-> r.user.userId, reply |-> r.p.reply])
               /\ ids' = [ids EXCEPT !.reply = @ + 1]
               /\ Resume(r, [r EXCEPT !.pc = "push", !.loc = [replyId |-> ids.reply + 1]])
               /\ UNCHANGED last
  /\ UNCHANGED <<users, messages, appeals, tokens, now, capacity, faulty, secretKey>>

\* Message.findByIdAndUpdate(messageId, { $push: { replies: newReply._id } }):
\* resolves to null, without an error, when no message has that id
CreateReplyPush(r, ok) ==
  /\ r \in At("createReply", "push")
  /\ IF ~ok THEN Crash(r, 500, "db") /\ UNCHANGED messages
     ELSE /\ messages' = IF r.p.id \in DOMAIN messages
                         THEN [messages EXCEPT ![r.p.id].replies = Append(@, r.loc.replyId)]
                         ELSE messages
          /\ Finish(r) /\ Sent(r, <<201>>, "none")
  /\ UNCHANGED <<users, replies, appeals, ids, tokens, now, capacity, faulty, secretKey>>

----------------------------------------------------------------------------
(* DELETE /api/messages/:messageId/replies/:replyId *)
ReplyParams == {GhostId} \cup (1..ids.reply)

StartDeleteReply(h, messageId, replyId) ==
  /\ Room
  /\ (IF Refused(h) THEN Refusal("deleteReply", h)
      ELSE LET user == authMiddleware(h).user IN
         /\ Suspend(Req("deleteReply", user, [messageId |-> messageId, replyId |-> replyId],
                        "findMessage", NoLoc))
         /\ UNCHANGED <<users, messages, replies, appeals, ids, tokens, now, last>>)
  /\ UNCHANGED <<capacity, faulty, secretKey>>

DeleteReplyFindMessage(r, ok) ==
  /\ r \in At("deleteReply", "findMessage")
  /\ (IF ~Found(messages, r.p.messageId, ok) THEN NotFound(r, messages, r.p.messageId, ok, 404)
      ELSE LET doc == messages[r.p.messageId] IN
                    /\ Resume(r, [r EXCEPT !.pc = "findReply", !.loc = [replies |-> doc.replies, v |-> doc.v]])
                    /\ UNCHANGED last)
  /\ UNCHANGED <<users, messages, replies, appeals, ids, tokens, now, capacity, faulty, secretKey>>

DeleteReplyFindReply(r, ok) ==
  /\ r \in At("deleteReply", "findReply")
  /\ (IF ~Found(replies, r.p.replyId, ok) THEN NotFound(r, replies, r.p.replyId, ok, 404)
      ELSE LET doc == replies[r.p.replyId] IN
         IF ~DeleteAllowed(r.user, doc.userId) THEN Finish(r) /\ Sent(r, <<403>>, "none")
         ELSE Resume(r, [r EXCEPT !.pc = "deleteOne"]) /\ UNCHANGED last)
  /\ UNCHANGED <<users, messages, replies, appeals, ids, tokens, now, capacity, faulty, secretKey>>

\* message.replies.filter((r) => r.toString() !== replyId), on the loaded document
FilterReplies(list, replyId) == SelectSeq(list, LAMBDA x : x # replyId)
RepliesDelta(list, replyId) ==
  IF FilterReplies(list, replyId) = list THEN EmptyDelta
  ELSE [replies |-> FilterReplies(list, replyId)]

DeleteReplyDeleteOne(r, ok) ==
  /\ r \in At("deleteReply", "deleteOne")
  /\ IF ~ok THEN Finish(r) /\ Sent(r, Catch(500), "db") /\ UNCHANGED replies
     ELSE /\ replies' = Without(replies, r.p.replyId)
          /\ Resume(r, [r EXCEPT !.pc = "save",
                                 !.loc = [delta |-> RepliesDelta(r.loc.replies, r.p.replyId),
                                          v |-> r.loc.v]])
          /\ UNCHANGED last
  /\ UNCHANGED <<users, messages, appeals, ids, tokens, now, capacity, faulty, secretKey>>

DeleteReplySave(r, ok) ==
  /\ r \in At("deleteReply", "save")
  /\ SaveStep(r, r.p.messageId, ok, 200)

----------------------------------------------------------------------------
(* POST /api/appeals *)
AppealTypes == {Undefined, "spam"}
AppealContents == {Undefined, "c"}

StartCreateAppeal(h, appealType, content) ==
  /\ Room
  /\ ids.appeal < MaxAppeals
  /\ (IF Refused(h) THEN Refusal("createAppeal", h)
      ELSE LET user == authMiddleware(h).user IN
         LET r == Req("createAppeal", user,
                      [appealType |-> appealType, report |-> "bob", content |-> content],
                      "create", NoLoc)
         IN IF Falsy(appealType) \/ Falsy(r.p.report) \/ Falsy(content)
            THEN /\ Sent(r, <<400>>, "none")
                 /\ UNCHANGED <<users, messages, replies, appeals, ids, tokens, now, inflight>>
            ELSE /\ Suspend(r)
                 /\ UNCHANGED <<users, messages, replies, appeals, ids, tokens, now, last>>)
  /\ UNCHANGED <<capacity, faulty, secretKey>>

CreateAppeal(r, ok) ==
  /\ r \in At("createAppeal", "create")
  /\ Finish(r)
  /\ IF ~ok THEN Sent(r, Catch(500), "db") /\ UNCHANGED <<appeals, ids>>
     ELSE /\ appeals' = appeals @@
                 ((ids.appeal + 1) :> [userId |-> r.user.userId, appealType |-> r.p.appealType,
                                       report |-> r.p.report, content |-> r.p.content])
          /\ ids' = [ids EXCEPT !.appeal = @ + 1]
          /\ Sent(r, <<201>>, "none")
  /\ UNCHANGED <<users, messages, replies, tokens, now, capacity, faulty, secretKey>>

(* GET /api/appeals *)
StartListAppeals(h) ==
  /\ Room
  /\ (IF Refused(h) THEN Refusal("listAppeals", h)
      ELSE LET user == authMiddleware(h).user IN
         /\ Suspend(Req("listAppeals", user, NoParams, "find", NoLoc))
         /\ UNCHANGED <<users, messages, replies, appeals, ids, tokens, now, last>>)
  /\ UNCHANGED <<capacity, faulty, secretKey>>

ListAppeals(r, ok) ==
  /\ r \in At("listAppeals", "find")
  /\ Finish(r)
  /\ IF ~ok THEN Sent(r, Catch(500), "db") ELSE Sent(r, <<200>>, "none")
  /\ UNCHANGED <<users, messages, replies, appeals, ids, tokens, now, capacity, faulty, secretKey>>

(* DELETE /api/appeals/:id *)
AppealParams == {GhostId} \cup (1..ids.appeal)

StartDeleteAppeal(h, id) ==
  /\ Room
  /\ (IF Refused(h) THEN Refusal("deleteAppeal", h)
      ELSE LET user == authMiddleware(h).user IN
         /\ Suspend(Req("deleteAppeal", user, [id |-> id], "findByIdAndDelete", NoLoc))
         /\ UNCHANGED <<users, messages, replies, appeals, ids, tokens, now, last>>)
  /\ UNCHANGED <<capacity, faulty, secretKey>>

\* the handler as it would be with the owner-or-admin check of the other delete routes
DeleteAppealOwnerOrAdmin(r, ok) ==
  /\ r \in At("deleteAppeal", "findByIdAndDelete")
  /\ Finish(r)
  /\ IF ~ok THEN Sent(r, Catch(500), "db") /\ UNCHANGED appeals
     ELSE IF ~ValidObjectId(r.p.id) THEN Sent(r, Catch(500), "cast") /\ UNCHANGED appeals
     ELSE IF r.p.id \in DOMAIN appeals /\ ~DeleteAllowed(r.user, appeals[r.p.id].userId)
          THEN Sent(r, <<403>>, "none") /\ UNCHANGED appeals
          ELSE appeals' = Without(appeals, r.p.id) /\ Sent(r, <<200>>, "none")
  /\ UNCHANGED <<users, messages, replies, ids, tokens, now, capacity, faulty, secretKey>>

\* Appeal.findByIdAndDelete(id): no look at who reported the appeal
DeleteAppeal(r, ok) ==
  /\ r \in At("deleteAppeal", "findByIdAndDelete")
  /\ Finish(r)
  /\ IF ~ok THEN Sent(r, Catch(500), "db") /\ UNCHANGED appeals
     ELSE IF ~ValidObjectId(r.p.id) THEN Sent(r, Catch(500), "cast") /\ UNCHANGED appeals
     ELSE appeals' = Without(appeals, r.p.id) /\ Sent(r, <<200>>, "none")
  /\ UNCHANGED <<users, messages, replies, ids, tokens, now, capacity, faulty, secretKey>>

----------------------------------------------------------------------------
(* GET /api/user *)
StartGetUser(h) ==
  /\ Room
  /\ (IF Refused(h) THEN Refusal("getUser", h)
      ELSE LET user == authMiddleware(h).user IN
         /\ Suspend(Req("getUser", user, NoParams, "findById", NoLoc))
         /\ UNCHANGED <<users, messages, replies, appeals, ids, tokens, now, last>>)
  /\ UNCHANGED <<capacity, faulty, secretKey>>

GetUser(r, ok) ==
  /\ r \in At("getUser", "findById")
  /\ (IF ~Found(users, r.user.userId, ok) THEN NotFound(r, users, r.user.userId, ok, 404)
      ELSE LET doc == users[r.user.userId] IN
                    Finish(r) /\ Sent(r, <<200>>, "none"))
  /\ UNCHANGED <<users, messages, replies, appeals, ids, tokens, now, capacity, faulty, secretKey>>

----------------------------------------------------------------------------
(* POST /api/register *)
Usernames == {"alice", "carol"}
Passwords == {Undefined, "pw1"}

StartRegister(username, password) ==
  /\ Room
  /\ ids.user < MaxUsers
  /\ LET r == Req("register", Anonymous,
                  [username |-> username, password |-> password, gender |-> "female", age |-> "22"],
                  "findOne", NoLoc)
     IN IF Falsy(username) \/ Falsy(password) \/ Falsy(r.p.gender) \/ Falsy(r.p.age)
        THEN /\ Sent(r, <<400>>, "none")
             /\ UNCHANGED <<users, messages, replies, appeals, ids, tokens, now, inflight>>
        ELSE /\ Suspend(r)
             /\ UNCHANGED <<users, messages, replies, appeals, ids, tokens, now, last>>
  /\ UNCHANGED <<capacity, faulty, secretKey>>

\* User.findOne({ username })
FindUser(username) == {u \in DOMAIN users : users[u].username = username}

RegisterFindOne(r, ok) ==
  /\ r \in At("register", "findOne")
  /\ IF ~ok THEN Crash(r, 500, "db")
     ELSE IF FindUser(r.p.username) # {} THEN Finish(r) /\ Sent(r, <<400>>, "none")
     ELSE Resume(r, [r EXCEPT !.pc = "hash"]) /\ UNCHANGED last
  /\ UNCHANGED <<users, messages, replies, appeals, ids, tokens, now, capacity, faulty, secretKey>>

\* await bcrypt.hash(password, 10)
RegisterHash(r) ==
  /\ r \in At("register", "hash")
  /\ Resume(r, [r EXCEPT !.pc = "create", !.loc = [hashedPassword |-> Hash(r.p.password)]])
  /\ UNCHANGED <<users, messages, replies, appeals, ids, tokens, now, capacity, faulty, secretKey, last>>

\* userSchema: username { unique: true }: the insert fails with a duplicate key error
DuplicateKey(username) == FindUser(username) # {}

\* await User.create(...)
RegisterCreate(r, ok) ==
  /\ r \in At("register", "create")
  /\ IF ~ok THEN Crash(r, 500, "db") /\ UNCHANGED <<users, ids>>
     ELSE IF DuplicateKey(r.p.username)
          THEN Crash(r, 500, "duplicate key") /\ UNCHANGED <<users, ids>>
          ELSE /\ users' = users @@
                    ((ids.user + 1) :> [username |-> r.p.username, password |-> r.loc.hashedPassword,
                                        role |-> "user", gender |-> r.p.gender])
               /\ ids' = [ids EXCEPT !.user = @ + 1]
               /\ Finish(r) /\ Sent(r, <<201>>, "none")
  /\ UNCHANGED <<messages, replies, appeals, tokens, now, capacity, faulty, secretKey>>

----------------------------------------------------------------------------
(* POST /api/login *)
LoginPasswords == {Undefined, "pw1", "pw2"}

StartLogin(username, password) ==
  /\ Room
  /\ LET r == Req("login", Anonymous, [username |-> username, password |-> password],
                  "findOne", NoLoc)
     IN IF Falsy(username) \/ Falsy(password)
        THEN /\ Sent(r, <<400>>, "none")
             /\ UNCHANGED <<users, messages, replies, appeals, ids, tokens, now, inflight>>
        ELSE /\ Suspend(r)
             /\ UNCHANGED <<users, messages, replies, appeals, ids, tokens, now, last>>
  /\ UNCHANGED <<capacity, faulty, secretKey>>

\* await User.findOne({ username }); 400 when there is no such user
LoginFindOne(r, ok) ==
  /\ r \in At("login", "findOne")
  /\ IF ~ok THEN Crash(r, 500, "db")
     ELSE IF FindUser(r.p.username) = {} THEN Finish(r) /\ Sent(r, <<400>>, "no user")
     ELSE LET id == CHOOSE u \in FindUser(r.p.username) : TRUE
          IN /\ Resume(r, [r EXCEPT !.pc = "compare", !.loc = [id |-> id, user |-> users[id]]])
             /\ UNCHANGED last
  /\ UNCHANGED <<users, messages, replies, appeals, ids, tokens, now, capacity, faulty, secretKey>>

\* await bcrypt.compare(password, user.password); then jwt.sign, which throws
\* into the catch block when the deployment has no SECRET_KEY
Login(r) ==
  /\ r \in At("login", "compare")
  /\ IF ~Compare(r.p.password, r.loc.user.password)
     THEN Finish(r) /\ Sent(r, <<400>>, "password") /\ UNCHANGED tokens
     ELSE IF SignThrows
          THEN Crash(r, 500, "sign") /\ UNCHANGED tokens
          ELSE /\ tokens' = tokens \cup {Sign(r.loc.user, r.loc.id)}
               /\ Finish(r) /\ Sent(r, <<200>>, "none")
  /\ UNCHANGED <<users, messages, replies, appeals, ids, now, capacity, faulty, secretKey>>

----------------------------------------------------------------------------
(* time passes: tokens age *)
Tick ==
  /\ now < MaxTime
  /\ now' = now + 1
  /\ UNCHANGED <<users, messages, replies, appeals, ids, tokens, capacity, faulty, secretKey, inflight, last>>

----------------------------------------------------------------------------
MessageCreation ==
  \/ \E h \in Headers, form \in BodyForms, name \in NameInputs, message \in TextInputs,
        textColor \in ColorInputs, images \in ImageInputs :
       StartCreateMessage(h, form, name, message, textColor, images)
  \/ \E r \in BagToSet(inflight) : UploadImages(r)
  \/ \E r \in BagToSet(inflight), ok \in Outcomes : CreateMessage(r, ok)

Likes ==
  \/ \E h \in Headers, id \in MessageParams : StartLike(h, id)
  \/ \E r \in BagToSet(inflight), ok \in Outcomes : LikeFind(r, ok)
  \/ \E r \in BagToSet(inflight), ok \in Outcomes : LikeSave(r, ok)
  \/ \E h \in Headers, id \in MessageParams : StartUnlike(h, id)
  \/ \E r \in BagToSet(inflight), ok \in Outcomes : UnlikeFind(r, ok)
  \/ \E r \in BagToSet(inflight), ok \in Outcomes : UnlikeSave(r, ok)

Edits ==
  \/ \E h \in Headers, id \in MessageParams, name \in PatchNames,
        message \in PatchTexts, textColor \in PatchColors :
       StartEdit(h, id, name, message, textColor)
  \/ \E r \in BagToSet(inflight), ok \in Outcomes : EditFind(r, ok)
  \/ \E r \in BagToSet(inflight), ok \in Outcomes : EditSave(r, ok)

MessageDeletion ==
  \/ \E h \in Headers, id \in MessageParams : StartDeleteMessage(h, id)
  \/ \E r \in BagToSet(inflight), ok \in Outcomes : DeleteMessageFind(r, ok)
  \/ \E r \in BagToSet(inflight), ok \in Outcomes : DeleteMessageDelete(r, ok)

Replies ==
  \/ \E h \in Headers, id \in ReplyParents, reply \in ReplyInputs : StartCreateReply(h, id, reply)
  \/ \E r \in BagToSet(inflight), ok \in Outcomes : CreateReplyCreate(r, ok)
  \/ \E r \in BagToSet(inflight), ok \in Outcomes : CreateReplyPush(r, ok)
  \/ \E h \in Headers, messageId \in MessageParams, replyId \in ReplyParams :
       StartDeleteReply(h, messageId, replyId)
  \/ \E r \in BagToSet(inflight), ok \in Outcomes : DeleteReplyFindMessage(r, ok)
  \/ \E r \in BagToSet(inflight), ok \in Outcomes : DeleteReplyFindReply(r, ok)
  \/ \E r \in BagToSet(inflight), ok \in Outcomes : DeleteReplyDeleteOne(r, ok)
  \/ \E r \in BagToSet(inflight), ok \in Outcomes : DeleteReplySave(r, ok)

Appeals ==
  \/ \E h \in Headers, appealType \in AppealTypes, content \in AppealContents :
       StartCreateAppeal(h, appealType, content)
  \/ \E r \in BagToSet(inflight), ok \in Outcomes : CreateAppeal(r, ok)
  \/ \E h \in Headers : StartListAppeals(h)
  \/ \E r \in BagToSet(inflight), ok \in Outcomes : ListAppeals(r, ok)
  \/ \E h \in Headers, id \in AppealParams : StartDeleteAppeal(h, id)
  \/ \E r \in BagToSet(inflight), ok \in Outcomes : DeleteAppeal(r, ok)

Accounts ==
  \/ \E username \in Usernames \cup {Undefined}, password \in Passwords :
       StartRegister(username, password)
  \/ \E r \in BagToSet(inflight), ok \in Outcomes : RegisterFindOne(r, ok)
  \/ \E r \in BagToSet(inflight) : RegisterHash(r)
  \/ \E r \in BagToSet(inflight), ok \in Outcomes : RegisterCreate(r, ok)
  \/ \E username \in Usernames \cup {Undefined}, password \in LoginPasswords :
       StartLogin(username, password)
  \/ \E r \in BagToSet(inflight), ok \in Outcomes : LoginFindOne(r, ok)
  \/ \E r \in BagToSet(inflight) : Login(r)

Profile ==
  \/ \E h \in Headers : StartGetUser(h)
  \/ \E r \in BagToSet(inflight), ok \in Outcomes : GetUser(r, ok)

Next ==
  \/ MessageCreation \/ Likes \/ Edits \/ MessageDeletion \/ Replies
  \/ Appeals \/ Accounts \/ Profile \/ Tick

Spec == Init /\ [][Next]_vars

(* The like counter: one session, creating messages and liking them *)
SpecLikes == InitWith({1}, MaxInFlight, BOOLEAN, {InEnvironment}) /\ [][MessageCreation \/ Likes]_vars

(* Ownership of messages and replies: three sessions (two users and the admin) *)
SpecReplies ==
  InitWith({1, 2, 3}, MaxInFlightOwnership, BOOLEAN, {InEnvironment}) /\ [][MessageCreation \/ MessageDeletion \/ Replies]_vars

(* Editing: the owner's session and the admin's *)
SpecEdits == InitWith({1, 3}, MaxInFlightOwnership, BOOLEAN, {InEnvironment}) /\ [][MessageCreation \/ Edits]_vars

(* Accounts: registration and login, racing *)
SpecAccounts == InitWith({1}, MaxInFlight, BOOLEAN, {InEnvironment, InDotenvFile, NotSet}) /\ [][Accounts]_vars

(* Sessions: tokens are issued, age and expire while protected routes are called *)
SpecSessions ==
  InitWith({1, 3}, MaxInFlightOwnership, BOOLEAN, {InEnvironment, InDotenvFile, NotSet}) /\ [][Accounts \/ Profile \/ Appeals \/ Tick]_vars

(* Appeals: three sessions (two users and the admin) *)
SpecAppeals == InitWith({1, 2, 3}, MaxInFlight, BOOLEAN, {InEnvironment}) /\ [][Appeals]_vars

----------------------------------------------------------------------------
(* Properties *)

\* request r took a step (it is not one of the requests a process exit
\* dropped) / r took its last step
Moved(r) == CopiesIn(r, inflight) - CopiesIn(r, inflight') > CopiesIn(r, last'.dropped)
Completed(r) == Moved(r) /\ BagCardinality(inflight') < BagCardinality(inflight)
FailedInDatabase(r) == Completed(r) /\ last'.err = "db"
OwnerOrAdmin(user, ownerId) == user.userId = ownerId \/ user.role = "admin"

\* C4: the like count of a message is never negative, in any state reached
\* by any interleaving of message create, like and unlike requests.
LikeCountNeverNegative == \A m \in DOMAIN messages : messages[m].likes >= 0

\* an unlike request has read a count of 0 and decided to write nothing
UnlikeAtZero ==
  \E r \in At("unlike", "save") :
    /\ DOMAIN r.loc.delta = {}
    /\ r.p.id \in DOMAIN messages
    /\ messages[r.p.id].likes = 0

\* C9: a like request that answers 200 raises the stored like count of its
\* message by exactly one, whatever other like requests are in flight.
LikeRaisesCountByOne ==
  [][\A r \in At("like", "save") :
       Completed(r) /\ last'.sends = <<200>> /\ r.p.id \in DOMAIN messages
         => messages'[r.p.id].likes = messages[r.p.id].likes + 1]_vars

\* C1: a delete request removes a message or a reply only when the session
\* is the stored owner or has the admin role; a delete request of any other
\* session that finds its entity answers 403 and changes neither the entity
\* nor any reply list (a request whose database call fails answers 500).
DeleteNeedsOwnerOrAdmin ==
  [][/\ \A m \in DOMAIN messages \ DOMAIN messages' :
          \E r \in At("deleteMessage", "findByIdAndDelete") :
             r.p.id = m /\ Moved(r) /\ OwnerOrAdmin(r.user, messages[m].userId)
     /\ \A x \in DOMAIN replies \ DOMAIN replies' :
          \E r \in At("deleteReply", "deleteOne") :
             r.p.replyId = x /\ Moved(r) /\ OwnerOrAdmin(r.user, replies[x].userId)
     /\ \A r \in At("deleteMessage", "findById") :
          /\ Moved(r) /\ ~FailedInDatabase(r)
          /\ r.p.id \in DOMAIN messages
          /\ ~OwnerOrAdmin(r.user, messages[r.p.id].userId)
          => last'.sends = <<403>> /\ Completed(r) /\ UNCHANGED <<messages, replies>>
     /\ \A r \in At("deleteReply", "findReply") :
          /\ Moved(r) /\ ~FailedInDatabase(r)
          /\ r.p.replyId \in DOMAIN replies
          /\ ~OwnerOrAdmin(r.user, replies[r.p.replyId].userId)
          => last'.sends = <<403>> /\ Completed(r) /\ UNCHANGED <<messages, replies>>
    ]_vars

\* a user who is neither the reply's owner nor admin was refused, and the
\* reply is still stored and still listed by its parent
ForeignReplyDeleteRefused ==
  /\ last.kind = "deleteReply" /\ last.sends = <<403>>
  /\ last.user.role = "user" /\ last.owner \notin {0, last.user.userId}
  /\ \E x \in DOMAIN replies :
       /\ replies[x].userId = last.owner
       /\ replies[x].messageId \in DOMAIN messages
       /\ x \in Range(messages[replies[x].messageId].replies)

\* C5: whenever no request is in flight (and no database call can fail),
\* every stored reply that was created under a message is listed exactly
\* once, by its parent message and by no other, and no reply list holds the
\* id of a reply that is not stored.
Occurrences(list, x) == Cardinality({i \in DOMAIN list : list[i] = x})
ReplyReferencesConsistent ==
  ~faulty /\ inflight = EmptyBag =>
    /\ \A x \in DOMAIN replies :
         replies[x].messageId \in 1..ids.msg =>
           /\ replies[x].messageId \in DOMAIN messages
           /\ \A m \in DOMAIN messages :
                Occurrences(messages[m].replies, x) = IF m = replies[x].messageId THEN 1 ELSE 0
    /\ \A m \in DOMAIN messages : Range(messages[m].replies) \subseteq DOMAIN replies

\* C6: a reply create request whose :id (a well-formed id) names no stored
\* message answers 404 and stores no reply (a request whose database call
\* fails answers 500).
ReplyToMissingMessageIs404 ==
  [][\A r \in At("createReply", "create") :
       /\ Moved(r) /\ ~FailedInDatabase(r)
       /\ ValidObjectId(r.p.id) /\ r.p.id \notin DOMAIN messages
       => last'.sends = <<404>> /\ Completed(r) /\ replies' = replies]_vars

\* C2: an edit request changes a message only when the session is the stored
\* owner; an edit request of any other session, the admin's included, that
\* finds the message answers 403 and leaves every field of it unchanged (a
\* request whose database call fails answers 500).
EditNeedsOwner ==
  [][/\ \A m \in DOMAIN messages \cap DOMAIN messages' :
          messages'[m] # messages[m] =>
            \E r \in At("edit", "save") :
               r.p.id = m /\ Moved(r) /\ r.user.userId = messages[m].userId
     /\ \A r \in At("edit", "findById") :
          /\ Moved(r) /\ ~FailedInDatabase(r)
          /\ r.p.id \in DOMAIN messages
          /\ r.user.userId # messages[r.p.id].userId
          => last'.sends = <<403>> /\ Completed(r) /\ UNCHANGED messages
    ]_vars

\* the admin asked to edit a message of another user and was refused
AdminEditRefused ==
  /\ last.kind = "edit" /\ last.sends = <<403>>
  /\ last.user.role = "admin" /\ last.owner \notin {0, last.user.userId}

\* C3: a request enters a protected handler only with the claims of a token
\* that verifies when the request arrives; a request the validator rejects
\* enters no handler, changes no stored entity, and is answered 401 when the
\* header or its token segment is missing and 403 when the token fails
\* verification.
Unprotected == {"register", "login"}
VerifiedSession(user) ==
  \E t \in tokens \cup MadeUpTokens : Verify(t) /\ user = [userId |-> t.userId, role |-> t.role]
Admitted(r) ==
  /\ CopiesIn(r, inflight') > CopiesIn(r, inflight)
  /\ BagCardinality(inflight') > BagCardinality(inflight)
OnlyVerifiedSessionsEnter ==
  [][/\ \A r \in BagToSet(inflight') :
          Admitted(r) /\ r.kind \notin Unprotected => VerifiedSession(r.user)
     /\ last' # last /\ inflight' = inflight /\ last'.kind \notin Unprotected =>
          IF last'.entered THEN VerifiedSession(last'.user)
          ELSE /\ db' = db
               /\ \/ last'.hdr.form \in {"absent", "scheme"} /\ last'.sends = <<401>>
                  \/ /\ last'.hdr.form = "bearer"
                     /\ ~Verify(last'.hdr.token)
                     /\ last'.sends = <<403>>
    ]_vars

\* a token the server signed was presented after it expired, and was refused
ExpiredTokenRefused ==
  /\ ~last.entered /\ last.sends = <<403>>
  /\ last.hdr.form = "bearer" /\ last.hdr.token.sig = VerifyKey

\* C7: usernames are unique among stored users, and a register request that
\* completes when its username already belongs to a stored user answers 400
\* and stores no user (a request whose database call fails answers 500).
DuplicateRegisterIs400 ==
  [][/\ \A u, v \in DOMAIN users' : users'[u].username = users'[v].username => u = v
     /\ \A r \in At("register", "findOne") \cup At("register", "create") :
          Completed(r) /\ ~FailedInDatabase(r) /\ FindUser(r.p.username) # {}
          => last'.sends = <<400>> /\ users' = users
    ]_vars

\* C8: an appeal delete request of any session the validator admitted answers
\* 200 and the appeal is gone, whoever reported it and whatever the session's
\* role (a request whose database call fails answers 500).
AnySessionDeletesAppeal ==
  [][\A r \in At("deleteAppeal", "findByIdAndDelete") :
       Completed(r) /\ ~FailedInDatabase(r)
       => last'.sends = <<200>> /\ r.p.id \notin DOMAIN appeals']_vars

\* a user without the admin role deleted an appeal another user reported
ForeignAppealDeleted ==
  /\ last.kind = "deleteAppeal" /\ last.sends = <<200>>
  /\ last.user.role = "user" /\ last.owner \notin {0, last.user.userId}
  /\ appeals = <<>> /\ ids.appeal > 0

\* C10: the register, login, message create and reply create handlers send
\* one response per request, also when a database call fails.
ExactlyOneResponse ==
  last.kind \in {"register", "login", "createMessage", "createReply"} => Len(last.sends) <= 1

=============================================================================
